---------------------------- MODULE Spec2Model ----------------------------
(***************************************************************************)
(* Ledger (accounts + transactions tables) and the PvP chinchiro round of  *)
(* the Elysion bot: src/database.py and src/main.py.                        *)
(*                                                                         *)
(* Granularity.  Every handler is a coroutine; other handlers run at each  *)
(* await.  A handler is cut into one action per suspension point that      *)
(* another handler can observe.  Every get_db() opens its own SQLite        *)
(* connection: a SELECT outside a transaction reads the committed state,    *)
(* the first write statement takes the database write lock and everything  *)
(* up to commit() is invisible to the other connections, so the statements *)
(* from the first write to the commit are one action, placed at the commit.*)
(* Closing a connection without commit() rolls its transaction back.       *)
(***************************************************************************)
EXTENDS Integers, Sequences, FiniteSets, TLC

\* ------------------------------------------------------------------ bounds
NumUsers == 3
NumChannels == 2
MaxSessions == 2
MaxInflight == 2
MaxOps == 2
MaxTransfers == 1
MaxConfirms == 2
MaxBatches == 1
MaxRollbacks == 1
InitBalance == 2060

Users == 1..NumUsers
Channels == 1..NumChannels
Sessions == 1..MaxSessions
Transfers == 1..MaxTransfers
Batches == 1..MaxBatches
Rollbacks == 1..MaxRollbacks

\* users holding guild_permissions.administrator
Admins == {1}

\* ------------------------------------------------------- program constants
BET_CHOICES == {1000, 5000, 10000, 30000, 50000, 100000}
MAX_PLAYERS == 7
TRANSFER_LIMIT == 10000000

\* int(bet * VENUE_RATE), VENUE_RATE = 0.03
venue_fee(bet) == (bet * 3) \div 100

\* amounts the bounded environment asks the ledger to move
DeltaChoices == {-1060, 1060}
TransferAmounts == {1060}
WageChoices == {1060}

\* ---------------------------------------------------------------- helpers
Min(a, b) == IF a < b THEN a ELSE b

RECURSIVE SumOver(_, _)
SumOver(S, f) ==
    IF S = {} THEN 0
    ELSE LET x == CHOOSE y \in S : TRUE IN f[x] + SumOver(S \ {x}, f)

SeqSet(q) == {q[i] : i \in 1..Len(q)}

\* ------------------------------------------------------------- DiceEngine
\* Python None as the multiplier of a numbered roll
None == -100

Faces(dice) == {dice[i] : i \in 1..3}
Count(dice, v) == Cardinality({i \in 1..3 : dice[i] = v})

\* a judge_roll that takes the dice in the order they fell
sorted_as_thrown(dice) == dice

\* sorted(dice)
sorted(dice) ==
    CHOOSE d \in [1..3 -> 1..6] :
        /\ d[1] <= d[2] /\ d[2] <= d[3]
        /\ \A v \in 1..6 : Count(d, v) = Count(dice, v)

\* returns <<score, mult>> (the role name is presentation only)
judge_roll(dice) ==
    LET d == sorted(dice)
        counts == [v \in Faces(dice) |-> Count(dice, v)]
    IN  IF d = <<1, 1, 1>> THEN <<100, 5>>
        ELSE IF Cardinality(DOMAIN counts) = 1 THEN <<d[1] * 10 + 50, 3>>
        ELSE IF d = <<4, 5, 6>> THEN <<99, 2>>
        ELSE IF d = <<1, 2, 3>> THEN <<-1, -1>>
        ELSE IF \E v \in DOMAIN counts : counts[v] = 2
             THEN <<CHOOSE v \in DOMAIN counts : counts[v] = 1, None>>
        ELSE <<0, 0>>

\* dice triples the round draws from: one per category of judge_roll
RollSamples == {<<1,1,1>>, <<2,2,2>>, <<4,5,6>>, <<3,1,1>>, <<1,2,4>>, <<1,2,3>>}
\* the subset the round draws from: top tier, numbered, no result, instant loss
RoundSamples == {<<1,1,1>>, <<3,1,1>>, <<1,2,4>>, <<1,2,3>>}
MAX_TRIES == 3

\* the roll sequences roll_until_role can return: it stops at the first
\* roll whose mult is not 0, and after max_tries rolls at the latest
RollSeqs(samples, tries) ==
    {r \in UNION {[1..n -> samples] : n \in 1..tries} :
        \A i \in 1..Len(r) :
            /\ (i < Len(r)) => (judge_roll(r[i])[2] = 0)
            /\ (judge_roll(r[i])[2] = 0 /\ i < tries) => (i < Len(r))}

\* <<score, mult>> of a roll sequence: the judgement of its last roll
roll_until_role(rolls) == judge_roll(rolls[Len(rolls)])

score_rank(mult, score) ==
    IF mult = 5 THEN <<5, score>>
    ELSE IF mult = 3 THEN <<3, score>>
    ELSE IF mult = 2 THEN <<2, score>>
    ELSE IF mult = None THEN <<1, score>>
    ELSE IF mult = -1 THEN <<-1, 0>>
    ELSE <<0, 0>>

\* a comparison that looks at the category only
TupleGT_rank_only(a, b) == a[1] > b[1]

\* Python tuple comparison a > b
TupleGT(a, b) == a[1] > b[1] \/ (a[1] = b[1] /\ a[2] > b[2])

determine_outcome(h_mult, h_score, c_mult, c_score) ==
    LET h == score_rank(h_mult, h_score)
        c == score_rank(c_mult, c_score)
    IN  IF TupleGT(c, h) THEN "child_win"
        ELSE IF TupleGT(h, c) THEN "host_win"
        ELSE "draw"

pvp_payout_mult(mult) ==
    IF mult = 5 THEN 5
    ELSE IF mult = 3 THEN 3
    ELSE IF mult = 2 THEN 2
    ELSE 1

\* no judgement yet
NoRole == <<>>

\* CooldownTracker: time is counted in ticks, TicksPerSecond to the second
\* (datetime has a resolution finer than the second)
COOLDOWN_SECONDS == 10
TicksPerSecond == 4
MaxElapsed == 60
NoEntry == -1
Unasked == -2

\* ------------------------------------------------------------------ state
VARIABLES
    accounts,       \* user ids that have a row in the accounts table
    balance,        \* accounts.balance (0 where there is no row)
    total_earned,   \* accounts.total_earned
    transactions,   \* rows of the transactions table
    nextTxId,       \* AUTOINCREMENT id of the next transactions row
    opsDone,        \* update_balance calls made so far
    xfer,           \* TransferConfirmView objects
    nBatch,         \* salary batches paid so far (distribute_all)
    rb,             \* salary_rollback handlers
    sessions,       \* Chinchiro.sessions: channel id -> session (0: no key)
    cooldowns,      \* keys of Chinchiro.cooldowns
    nSess,          \* chinchiro_start handlers that passed their checks
    sess,           \* ChinchiroSession objects and their create handler
    view,           \* ChinchiroRecruitView of each session
    joining,        \* join_btn handlers suspended on the balance read
    run,            \* locals of start_btn / _execute_pvp of each session
    deb,            \* committed Start debits of each session, per user
    cred,           \* committed round credits of each session, per user
    triple,         \* the dice list handed to judge_roll (<<>>: none)
    role,           \* what judge_roll returned for them (NoRole: not called)
    versus,         \* <<host, player>> results handed to determine_outcome
    verdict,        \* what determine_outcome returned ("": not called)
    since,          \* ticks from cooldowns[user_id] to now (NoEntry: no key)
    wait,           \* what _check_cd returned (Unasked: not called)
    all_rolls,      \* roll_until_role: the rolls made so far
    last_role,      \* roll_until_role: <<score, mult>> of the latest roll
    loop_done       \* roll_until_role: the loop has ended

ledger == <<accounts, balance, total_earned, transactions, nextTxId>>
handlers == <<opsDone, xfer, nBatch, rb>>
game == <<sessions, cooldowns, nSess, sess, view, joining, run, deb, cred>>
table == <<triple, role, versus, verdict, since, wait, all_rolls,
           last_role, loop_done>>
vars == <<accounts, balance, total_earned, transactions, nextTxId, opsDone,
          xfer, nBatch, rb, sessions, cooldowns, nSess, sess, view, joining,
          run, deb, cred, triple, role, versus, verdict, since,
          wait, all_rolls, last_role, loop_done>>

\* sender_id of a row written without one (SQL NULL)
Null == -1

\* an accounts table declared without the CHECK: every write is accepted
CheckBalanceOff(b) == TRUE

\* CHECK(balance >= 0) of the accounts table: a statement that would leave
\* a negative balance raises IntegrityError instead of writing
CheckBalance(b) == b >= 0

\* writing: confirm handlers between their balance SELECT and their commit;
\* moved is history: the transfers this view has committed
NoXfer == [st |-> "none", sender |-> 0, receiver |-> 0, amount |-> 0,
           processed |-> FALSE, writing |-> 0, moved |-> 0]
\* a view whose processed flag is set and whose handler has returned: every
\* later press returns at once
ClosedXfer == [NoXfer EXCEPT !.st = "closed", !.processed = TRUE]
\* destroyed is history: the session was taken out of the registry by
\* chinchiro_cancel or on_timeout while it was recruiting
NoSess == [st |-> "none", host |-> 0, bet |-> 0, channel_id |-> 0,
           players |-> <<>>, phase |-> "none", destroyed |-> FALSE]
NoResult == [rolled |-> FALSE, shonben |-> FALSE, score |-> 0, mult |-> 0]
NoRun == [pc |-> "idle", all_members |-> <<>>, idx |-> 0, broke |-> FALSE,
          seen_short |-> FALSE, refused |-> FALSE,
          num_children |-> 0, h |-> NoResult,
          results |-> [u \in Users |-> NoResult],
          win_members |-> <<>>, lose_members |-> <<>>, draw_members |-> <<>>,
          host_return |-> 0]
NoRb == [st |-> "idle", batch_id |-> 0, rows |-> {}]
Zero == [u \in Users |-> 0]

\* the bot after start-up, every user holding an account that earlier
\* salary payments filled with InitBalance; no view, session or handler yet
Init ==
    /\ accounts = Users
    /\ balance = [u \in Users |-> InitBalance]
    /\ total_earned = [u \in Users |-> InitBalance]
    /\ transactions = {}
    /\ nextTxId = 1
    /\ opsDone = 0
    /\ xfer = [t \in Transfers |-> NoXfer]
    /\ nBatch = 0
    /\ rb = [k \in Rollbacks |-> NoRb]
    /\ sessions = [c \in Channels |-> 0]
    /\ cooldowns = {}
    /\ nSess = 0
    /\ sess = [s \in Sessions |-> NoSess]
    /\ view = [s \in Sessions |-> "none"]
    /\ joining = [s \in Sessions |-> Zero]
    /\ run = [s \in Sessions |-> NoRun]
    /\ deb = [s \in Sessions |-> Zero]
    /\ cred = [s \in Sessions |-> Zero]
    /\ triple = <<>>
    /\ role = NoRole
    /\ versus = <<>>
    /\ verdict = ""
    /\ since = NoEntry
    /\ wait = Unasked
    /\ all_rolls = <<>>
    /\ last_role = <<0, 0>>
    /\ loop_done = TRUE

\* ----------------------------------------------------------------- Ledger
\* a connection that keeps the INSERT OR IGNORE when it is closed
accounts_kept_after_refusal(before, user_id) == before \cup {user_id}

\* the accounts rows after update_balance returned False: the connection is
\* closed with the INSERT OR IGNORE uncommitted, which rolls it back
accounts_after_refusal(before, user_id) == before

\* every delta counted as earned
earn_add_all(amount) == amount

\* earn_add = amount if amount > 0 else 0
earn_add(amount) == IF amount > 0 THEN amount ELSE 0

\* Database.update_balance: the INSERT OR IGNORE is its first statement, so
\* the whole call is one write transaction.  The row of the account exists
\* from that statement on, with balance 0 if it is new.
UpdateBalance(user_id, amount, type, batch_id) ==
    /\ opsDone < MaxOps
    /\ opsDone' = opsDone + 1
    /\ IF amount < 0 /\ balance[user_id] < -amount
       THEN /\ accounts' = accounts_after_refusal(accounts, user_id)
            /\ UNCHANGED <<balance, total_earned, transactions, nextTxId>>
       ELSE /\ accounts' = accounts \cup {user_id}
            /\ balance' = [balance EXCEPT ![user_id] = @ + amount]
            /\ total_earned' = [total_earned EXCEPT ![user_id] =
                                    @ + earn_add(amount)]
            /\ transactions' = transactions \cup
                   {[id |-> nextTxId, sender_id |-> Null,
                     receiver_id |-> user_id, amount |-> amount,
                     type |-> type, batch_id |-> batch_id]}
            /\ nextTxId' = nextTxId + 1
    /\ UNCHANGED <<xfer, nBatch, rb, game, table>>

\* Economy.transfer: the /送金 command creates the confirmation view
TransferOpen(t, sender, receiver, amount) ==
    /\ xfer[t].st = "none"
    /\ \A t2 \in Transfers : t2 < t => xfer[t2].st # "none"
    /\ amount > 0 /\ amount <= TRANSFER_LIMIT
    /\ receiver # sender
    /\ xfer' = [xfer EXCEPT ![t] = [st |-> "open", sender |-> sender,
                    receiver |-> receiver, amount |-> amount,
                    processed |-> FALSE, writing |-> 0, moved |-> 0]]
    /\ UNCHANGED <<ledger, opsDone, nBatch, rb, game, table>>

\* a view without the processed flag
never_processed(x) == FALSE

\* `if self.processed: return` at the top of confirm and of cancel
already_processed(x) == x.processed

\* TransferConfirmView.confirm up to the balance SELECT.  A press that finds
\* the flag set returns at once (no step); the others set it.
TransferConfirm(t, presser) ==
    /\ xfer[t].st \in {"open", "write"}
    /\ ~already_processed(xfer[t])
    /\ xfer[t].writing < MaxConfirms
    /\ xfer' = [xfer EXCEPT ![t] =
                    IF presser # xfer[t].sender
                    THEN IF @.writing > 0 THEN @ ELSE ClosedXfer
                    ELSE IF xfer[t].sender \notin accounts
                            \/ balance[xfer[t].sender] < xfer[t].amount
                    THEN IF @.writing > 0 THEN @ ELSE ClosedXfer
                    ELSE [@ EXCEPT !.processed = TRUE, !.st = "write",
                                   !.writing = @ + 1]]
    /\ UNCHANGED <<ledger, opsDone, nBatch, rb, game, table>>

\* a handler whose statements stay applied when a later one raises
transfer_rollback_missing(before, pending) == pending

\* the balances after `except Exception: await db.rollback()`
transfer_rollback(before, pending) == before

\* TransferConfirmView.confirm from the UPDATE of the sender to commit().
\* The UPDATE raises if the CHECK refuses it; fail says that a statement
\* after it, or the commit, raises (disk or lock error).
TransferWrite(t, fail) ==
    LET x == xfer[t] IN
    /\ x.st = "write"
    /\ xfer' = [xfer EXCEPT ![t] =
                    LET done == x.moved +
                            (IF CheckBalance(balance[x.sender] - x.amount)
                                /\ ~fail THEN 1 ELSE 0)
                    IN  IF x.writing > 1
                        THEN [x EXCEPT !.writing = @ - 1, !.moved = done]
                        ELSE [ClosedXfer EXCEPT !.moved = done]]
    /\ IF ~CheckBalance(balance[x.sender] - x.amount)
       THEN UNCHANGED ledger      \* IntegrityError: db.rollback()
       ELSE IF fail
       THEN /\ balance' = transfer_rollback(balance,
                              [balance EXCEPT ![x.sender] = @ - x.amount])
            /\ UNCHANGED <<accounts, total_earned, transactions, nextTxId>>
       ELSE /\ accounts' = accounts \cup {x.receiver}
            /\ balance' = [balance EXCEPT ![x.sender] = @ - x.amount,
                                          ![x.receiver] = @ + x.amount]
            /\ transactions' = transactions \cup
                   {[id |-> nextTxId, sender_id |-> x.sender,
                     receiver_id |-> x.receiver, amount |-> x.amount,
                     type |-> "TRANSFER", batch_id |-> Null]}
            /\ nextTxId' = nextTxId + 1
            /\ UNCHANGED total_earned
    /\ UNCHANGED <<opsDone, nBatch, rb, game, table>>

\* TransferConfirmView.cancel
TransferCancel(t, presser) ==
    /\ xfer[t].st = "open"
    /\ ~already_processed(xfer[t])
    /\ xfer' = [xfer EXCEPT ![t] = ClosedXfer]
    /\ UNCHANGED <<ledger, opsDone, nBatch, rb, game, table>>

\* Salary.distribute_all from the executemany of the account updates to
\* commit(): every member is credited member_total and gets one SALARY row
\* tagged with the batch id; the sender of the row is account 0
SalaryPay(members, member_total) ==
    LET b == nBatch + 1
        ids == CHOOSE f \in [members -> nextTxId..(nextTxId + Cardinality(members) - 1)] :
                   \A m1, m2 \in members : m1 < m2 => f[m1] < f[m2]
    IN
    /\ nBatch < MaxBatches
    /\ members # {}
    /\ nBatch' = b
    /\ accounts' = accounts \cup members
    /\ balance' = [u \in Users |->
                      IF u \in members THEN balance[u] + member_total
                      ELSE balance[u]]
    /\ total_earned' = [u \in Users |->
                           IF u \in members THEN total_earned[u] + member_total
                           ELSE total_earned[u]]
    /\ transactions' = transactions \cup
           {[id |-> ids[m], sender_id |-> 0, receiver_id |-> m,
             amount |-> member_total, type |-> "SALARY", batch_id |-> b] :
            m \in members}
    /\ nextTxId' = nextTxId + Cardinality(members)
    /\ UNCHANGED <<opsDone, xfer, rb, game, table>>

\* Salary.salary_rollback up to the SELECT of the batch's SALARY rows; with
\* no such row the handler reports and returns
SalaryRollbackRead(k, batch_id) ==
    LET rows == {r \in transactions :
                    r.batch_id = batch_id /\ r.type = "SALARY"}
    IN
    /\ rb[k].st = "idle"
    /\ \A k2 \in Rollbacks : k2 < k => rb[k2].st # "idle"
    /\ rows # {}
    /\ rb' = [rb EXCEPT ![k] = [st |-> "write", batch_id |-> batch_id,
                                rows |-> rows]]
    /\ UNCHANGED <<ledger, opsDone, xfer, nBatch, game, table>>

\* the UPDATE of salary_rollback for each row read, in id order; ok = FALSE
\* is the IntegrityError of the CHECK
RECURSIVE reverse_rows(_, _)
reverse_rows(rows, w) ==
    IF rows = {} \/ ~w.ok THEN w
    ELSE LET r == CHOOSE x \in rows : \A y \in rows : x.id <= y.id
             u == r.receiver_id
         IN  IF ~CheckBalance(w.bal[u] - r.amount)
             THEN [w EXCEPT !.ok = FALSE]
             ELSE reverse_rows(rows \ {r},
                      [w EXCEPT !.bal[u] = @ - r.amount,
                                !.te[u] = @ - r.amount])

\* a handler that leaves the reversals made before the failing one
salary_rollback_kept(before, pending) == pending

\* balance and total_earned after `except Exception: await db.rollback()`
salary_rollback_undone(before, pending) == before

\* salary_rollback from the first UPDATE to commit(), or to rollback() when
\* a statement raises; the DELETE takes every row tagged with the batch id
SalaryRollbackWrite(k) ==
    LET w == reverse_rows(rb[k].rows,
                 [bal |-> balance, te |-> total_earned, ok |-> TRUE])
    IN
    /\ rb[k].st = "write"
    /\ rb' = [rb EXCEPT ![k] = [NoRb EXCEPT !.st = "done"]]
    /\ IF w.ok
       THEN /\ balance' = w.bal
            /\ total_earned' = w.te
            /\ transactions' = {r \in transactions :
                                   r.batch_id # rb[k].batch_id}
            /\ UNCHANGED <<accounts, nextTxId>>
       ELSE /\ balance' = salary_rollback_undone(balance, w.bal)
            /\ total_earned' = salary_rollback_undone(total_earned, w.te)
            /\ UNCHANGED <<accounts, transactions, nextTxId>>
    /\ UNCHANGED <<opsDone, xfer, nBatch, game, table>>

\* ------------------------------------------------------- WageringSession
Need(s) == sess[s].bet + venue_fee(sess[s].bet)

\* _get_stell: the balance column, 0 when the account has no row
get_stell(user_id) == IF user_id \in accounts THEN balance[user_id] ELSE 0

\* a create command that does not look at the registry
channel_free_unchecked(ch) == TRUE

\* `ch_id in self.sessions` is false
channel_free(ch) == sessions[ch] = 0

\* chinchiro_start up to the balance read.  A request rejected here (channel
\* taken, cooldown running) returns without touching any state.  The wall
\* clock is not part of the state: a recorded cooldown may have run out.
CreateCheck(user, bet, ch) ==
    LET s == nSess + 1 IN
    /\ nSess < MaxSessions
    /\ channel_free(ch)
    /\ nSess' = s
    /\ sess' = [sess EXCEPT ![s] = [st |-> "creating", host |-> user,
                   bet |-> bet, channel_id |-> ch, players |-> <<>>,
                   phase |-> "none", destroyed |-> FALSE]]
    /\ UNCHANGED <<ledger, handlers, table, sessions, cooldowns, view, joining,
                   run, deb, cred>>

\* chinchiro_start from the balance read: the session and its view are made
\* and the session is stored under the channel id, whatever is stored there
CreateInsert(s) ==
    /\ sess[s].st = "creating"
    /\ IF get_stell(sess[s].host) < Need(s)
       THEN /\ sess' = [sess EXCEPT ![s] = [NoSess EXCEPT !.st = "rejected"]]
            /\ UNCHANGED <<sessions, view>>
       ELSE /\ sess' = [sess EXCEPT ![s].st = "live",
                                    ![s].phase = "recruiting"]
            /\ sessions' = [sessions EXCEPT ![sess[s].channel_id] = s]
            /\ view' = [view EXCEPT ![s] = "live"]
    /\ UNCHANGED <<ledger, handlers, table, cooldowns, nSess, joining, run, deb,
                   cred>>

\* join_btn up to the balance read
JoinCheck(s, user) ==
    /\ view[s] = "live"
    /\ sess[s].phase = "recruiting"
    /\ user # sess[s].host
    /\ user \notin SeqSet(sess[s].players)
    /\ Len(sess[s].players) < MAX_PLAYERS
    /\ joining[s][user] < MaxInflight
    /\ joining' = [joining EXCEPT ![s][user] = @ + 1]
    /\ UNCHANGED <<ledger, handlers, table, sessions, cooldowns, nSess, sess,
                   view, run, deb, cred>>

\* a join that lets everybody in
join_short_never(bal, need) == FALSE

\* join_btn's test of the balance it read: bal < s.bet + venue_fee
join_short(bal, need) == bal < need

\* join_btn from the balance read: the append is not guarded by the phase
JoinFinish(s, user) ==
    /\ joining[s][user] > 0
    /\ joining' = [joining EXCEPT ![s][user] = @ - 1]
    /\ IF join_short(get_stell(user), Need(s))
       THEN UNCHANGED sess
       ELSE sess' = [sess EXCEPT ![s].players = Append(@, user)]
    /\ UNCHANGED <<ledger, handlers, table, sessions, cooldowns, nSess, view,
                   run, deb, cred>>

\* a start button that turns nobody down
start_allowed_always(s, user) == TRUE

\* start_btn's three tests: the caller is the host, the phase is
\* "recruiting", the roster is not empty
start_allowed(s, user) ==
    /\ user = sess[s].host
    /\ sess[s].phase = "recruiting"
    /\ sess[s].players # <<>>

\* start_btn: the three rejections return without touching any state
StartBtn(s, user) ==
    /\ view[s] = "live"
    /\ start_allowed(s, user)
    /\ sess' = [sess EXCEPT ![s].phase = "rolling"]
    /\ run' = [run EXCEPT ![s] = [NoRun EXCEPT !.pc = "start"]]
    /\ UNCHANGED <<ledger, handlers, table, sessions, cooldowns, nSess, view,
                   joining, deb, cred>>

\* sess after `del self.sessions[ch_id]` took out the entry e (0: no key)
Destroy(e) ==
    IF e # 0 /\ sess[e].phase = "recruiting"
    THEN [sess EXCEPT ![e].destroyed = TRUE]
    ELSE sess

\* an on_timeout that leaves the channel's key in the registry
TimeoutKeepsKey(s) ==
    /\ view[s] = "live"
    /\ view' = [view EXCEPT ![s] = "timedout"]
    /\ UNCHANGED <<ledger, handlers, table, sessions, sess, cooldowns, nSess,
                   joining, run, deb, cred>>

\* ChinchiroRecruitView.on_timeout
Timeout(s) ==
    /\ view[s] = "live"
    /\ view' = [view EXCEPT ![s] = "timedout"]
    /\ sessions' = [sessions EXCEPT ![sess[s].channel_id] = 0]
    /\ sess' = Destroy(sessions[sess[s].channel_id])
    /\ UNCHANGED <<ledger, handlers, table, cooldowns, nSess, joining, run,
                   deb, cred>>

\* a cancel command open to everybody
may_cancel_anyone(e, user) == TRUE

\* who may cancel the session e: its host, or a member with the
\* administrator permission
may_cancel(e, user) == sess[e].host = user \/ user \in Admins

\* chinchiro_cancel
Cancel(ch, user) ==
    /\ sessions[ch] # 0
    /\ may_cancel(sessions[ch], user)
    /\ sessions' = [sessions EXCEPT ![ch] = 0]
    /\ sess' = Destroy(sessions[ch])
    /\ UNCHANGED <<ledger, handlers, table, cooldowns, nSess, view,
                   joining, run, deb, cred>>

\* ------------------------------------------------- Chinchiro._execute_pvp
Shonben == [rolled |-> TRUE, shonben |-> TRUE, score |-> -999, mult |-> -2]
Rolled(rolls) ==
    [rolled |-> TRUE, shonben |-> FALSE,
     score |-> roll_until_role(rolls)[1], mult |-> roll_until_role(rolls)[2]]

\* what one participant can end up with: the pre-roll forced loss or the
\* result of _animated_roll
RollResults == {Rolled(r) : r \in RollSeqs(RoundSamples, MAX_TRIES)}
ChildResults == {Shonben} \cup RollResults

\* all_members = [s.host] + s.players
PvpBegin(s) ==
    /\ run[s].pc = "start"
    /\ run' = [run EXCEPT ![s].pc = "validate",
                          ![s].all_members = <<sess[s].host>> \o sess[s].players,
                          ![s].idx = 1]
    /\ UNCHANGED <<ledger, handlers, table, sessions, cooldowns, nSess, sess,
                   view, joining, deb, cred>>

\* a re-validation that compares with the bet alone
validate_short_nofee(bal, bet, fee) == bal < bet

\* the test of the re-validation loop: bal < bet + venue_fee
validate_short(bal, bet, fee) == bal < bet + fee

\* one balance read of the re-validation loop; after the last one the round
\* is refused (the phase is set back) when somebody was short.  seen_short
\* and refused are history: a read met a balance below bet + venue_fee, and
\* this Start was refused.
PvpValidate(s) ==
    LET r == run[s]
        m == r.all_members[r.idx]
        fee == venue_fee(sess[s].bet)
        broke == r.broke \/ validate_short(get_stell(m), sess[s].bet, fee)
        seen == r.seen_short \/ get_stell(m) < sess[s].bet + fee
    IN
    /\ r.pc = "validate"
    /\ IF r.idx < Len(r.all_members)
       THEN /\ run' = [run EXCEPT ![s].idx = @ + 1, ![s].broke = broke,
                                  ![s].seen_short = seen]
            /\ UNCHANGED sess
       ELSE IF broke
       THEN /\ sess' = [sess EXCEPT ![s].phase = "recruiting"]
            /\ run' = [run EXCEPT ![s] = [NoRun EXCEPT !.refused = TRUE]]
       ELSE /\ run' = [run EXCEPT ![s].pc = "debit", ![s].idx = 1,
                                  ![s].broke = FALSE, ![s].seen_short = seen]
            /\ UNCHANGED sess
    /\ UNCHANGED <<ledger, handlers, table, sessions, cooldowns, nSess, view,
                   joining, deb, cred>>

\* _sub_stell inside the debit transaction, for the members from i on: a
\* member whose balance is short is skipped (the False is not looked at)
RECURSIVE sub_stell_from(_, _, _, _)
sub_stell_from(members, i, amount, w) ==
    IF i > Len(members) THEN w
    ELSE LET m == members[i] IN
         IF w.bal[m] < amount
         THEN sub_stell_from(members, i + 1, amount, w)
         ELSE sub_stell_from(members, i + 1, amount,
                  [bal |-> [w.bal EXCEPT ![m] = @ - amount],
                   d |-> [w.d EXCEPT ![m] = @ + amount]])

\* _sub_stell before any UPDATE of the debit loop: the SELECT reads the
\* committed balance; a short member is skipped
PvpDebitRead(s) ==
    LET r == run[s]
        m == r.all_members[r.idx]
    IN
    /\ r.pc = "debit"
    /\ IF get_stell(m) >= Need(s)
       THEN run' = [run EXCEPT ![s].pc = "debit_write"]
       ELSE IF r.idx < Len(r.all_members)
       THEN run' = [run EXCEPT ![s].idx = @ + 1]
       ELSE run' = [run EXCEPT ![s].pc = "host_roll"]
    /\ UNCHANGED <<ledger, handlers, table, sessions, cooldowns, nSess, sess,
                   view, joining, deb, cred>>

\* the first UPDATE of the debit loop, the rest of the loop and db.commit().
\* The UPDATE meets the balance as it is now: if it no longer covers the
\* amount the CHECK raises out of _execute_pvp and nothing is committed.
PvpDebitWrite(s) ==
    LET r == run[s]
        m == r.all_members[r.idx]
        w == sub_stell_from(r.all_members, r.idx + 1, Need(s),
                 [bal |-> [balance EXCEPT ![m] = @ - Need(s)],
                  d |-> [deb[s] EXCEPT ![m] = @ + Need(s)]])
    IN
    /\ r.pc = "debit_write"
    /\ IF ~CheckBalance(balance[m] - Need(s))
       THEN /\ run' = [run EXCEPT ![s].pc = "crashed"]
            /\ UNCHANGED <<balance, deb>>
       ELSE /\ run' = [run EXCEPT ![s].pc = "host_roll"]
            /\ balance' = w.bal
            /\ deb' = [deb EXCEPT ![s] = w.d]
    /\ UNCHANGED <<accounts, total_earned, transactions, nextTxId, handlers, table, sessions, cooldowns, nSess, sess, view, joining, cred>>

\* num_children, then the host's pre-roll check and the host's roll
PvpHostRoll(s, shonben, rolls) ==
    /\ run[s].pc = "host_roll"
    /\ run' = [run EXCEPT ![s].num_children = Len(sess[s].players),
                          ![s].pc = IF shonben THEN "shonben" ELSE "child_roll",
                          ![s].h = IF shonben THEN Shonben ELSE Rolled(rolls)]
    /\ UNCHANGED <<ledger, handlers, table, sessions, cooldowns, nSess, sess,
                   view, joining, deb, cred>>

\* _add_stell for every element of a list of <<user, amount>>
RECURSIVE add_stell_all(_, _)
add_stell_all(pay, f) ==
    IF pay = <<>> THEN f
    ELSE add_stell_all(Tail(pay),
             [f EXCEPT ![Head(pay)[1]] = @ + Head(pay)[2]])

\* a forced loss that only hands the stakes back
shonben_refund_stake(bet) == bet

\* what a player gets when the host's pre-roll check fails: bet * 2
shonben_refund(bet) == bet * 2

\* host forced loss: bet * 2 to every element of s.players, commit (an
\* upsert that the CHECK refuses raises and nothing is committed)
PvpShonbenPay(s) ==
    LET pay == [i \in 1..Len(sess[s].players) |->
                   <<sess[s].players[i], shonben_refund(sess[s].bet)>>]
        bal == add_stell_all(pay, balance)
    IN
    /\ run[s].pc = "shonben"
    /\ IF \E u \in Users : ~CheckBalance(bal[u])
       THEN /\ run' = [run EXCEPT ![s].pc = "crashed"]
            /\ UNCHANGED <<accounts, balance, cred>>
       ELSE /\ run' = [run EXCEPT ![s].pc = "teardown"]
            /\ balance' = bal
            /\ accounts' = accounts \cup SeqSet(sess[s].players)
            /\ cred' = [cred EXCEPT ![s] = add_stell_all(pay, @)]
    /\ UNCHANGED <<total_earned, transactions, nextTxId, handlers, table,
                   sessions, cooldowns, nSess, sess, view, joining, deb>>

\* the roll loop over s.players: results and child_shonbens are keyed by the
\* user id
PvpChildRolls(s, res) ==
    /\ run[s].pc = "child_roll"
    /\ run' = [run EXCEPT ![s].pc = "settle",
                          ![s].results = [u \in Users |->
                              IF u \in DOMAIN res THEN res[u] ELSE NoResult]]
    /\ UNCHANGED <<ledger, handlers, table, sessions, cooldowns, nSess, sess,
                   view, joining, deb, cred>>

\* a bonus that ignores what is left of the pool
actual_win_uncapped(raw_win, host_pool) == raw_win

\* actual_win = min(raw_win, host_pool)
actual_win_of(raw_win, host_pool) == Min(raw_win, host_pool)

\* host_pool -= actual_win
pool_after(host_pool, actual_win) == host_pool - actual_win

SettleStart(bet, num_children) ==
    [host_pool |-> bet * num_children, pay |-> <<>>, win_members |-> <<>>,
     lose_members |-> <<>>, draw_members |-> <<>>, ok |-> TRUE]

\* the settlement loop over s.players from element i on; ok = FALSE is the
\* KeyError of results[m.id] for an element that never rolled
RECURSIVE settle_loop(_, _, _, _, _, _)
settle_loop(players, i, bet, h, results, a) ==
    IF i > Len(players) \/ ~a.ok THEN a
    ELSE LET m == players[i]
             r == results[m]
             outcome == determine_outcome(h.mult, h.score, r.mult, r.score)
             raw_win == bet * pvp_payout_mult(r.mult)
             actual_win == actual_win_of(raw_win, a.host_pool)
         IN
         IF ~r.rolled
         THEN [a EXCEPT !.ok = FALSE]
         ELSE IF r.shonben
         THEN settle_loop(players, i + 1, bet, h, results,
                  [a EXCEPT !.lose_members = Append(@, m)])
         ELSE IF outcome = "child_win"
         THEN settle_loop(players, i + 1, bet, h, results,
                  [a EXCEPT !.host_pool = pool_after(@, actual_win),
                            !.pay = Append(@, <<m, bet + actual_win>>),
                            !.win_members = Append(@,
                                [m |-> m, mult |-> r.mult,
                                 actual_win |-> actual_win])])
         ELSE IF outcome = "host_win"
         THEN settle_loop(players, i + 1, bet, h, results,
                  [a EXCEPT !.lose_members = Append(@, m)])
         ELSE settle_loop(players, i + 1, bet, h, results,
                  [a EXCEPT !.pay = Append(@, <<m, bet>>),
                            !.draw_members = Append(@, m)])

RECURSIVE SumWins(_)
SumWins(win_members) ==
    IF win_members = <<>> THEN 0
    ELSE Head(win_members).actual_win + SumWins(Tail(win_members))

\* a host's return that leaves the losers' stakes out
HostReturnOwnStake(bet, a) == bet - SumWins(a.win_members)

\* host_return = bet + total_lost - total_won
HostReturn(bet, a) == bet + Len(a.lose_members) * bet - SumWins(a.win_members)

\* a host settlement applied whatever its sign
host_pay_unguarded(host, host_return) == <<<<host, host_return>>>>

\* the host's settlement: credited only if host_return > 0
host_pay(host, host_return) ==
    IF host_return > 0 THEN <<<<host, host_return>>>> ELSE <<>>

\* a connection that commits each statement as it runs
settle_commit_partial(ok, pay) == pay

\* what the settlement's connection leaves in the database: every credit on
\* db.commit(); none when a statement raised, since the connection is then
\* closed with its transaction open
settle_commit(ok, pay) == IF ok THEN pay ELSE <<>>

\* the settlement transaction: loop, host credit, db.commit().  A lookup
\* or a statement that raises ends it with the credits made so far pending.
PvpSettle(s) ==
    LET r == run[s]
        a == settle_loop(sess[s].players, 1, sess[s].bet, r.h, r.results,
                         SettleStart(sess[s].bet, r.num_children))
        host_return == HostReturn(sess[s].bet, a)
        pay == a.pay \o host_pay(sess[s].host, host_return)
        bal == add_stell_all(pay, balance)
    IN
    /\ r.pc = "settle"
    /\ IF ~a.ok \/ \E u \in Users : ~CheckBalance(bal[u])
       THEN LET done == settle_commit(FALSE, a.pay) IN
            /\ run' = [run EXCEPT ![s].pc = "crashed"]
            /\ balance' = add_stell_all(done, balance)
            /\ accounts' = accounts \cup {done[i][1] : i \in 1..Len(done)}
            /\ cred' = [cred EXCEPT ![s] = add_stell_all(done, @)]
       ELSE LET done == settle_commit(TRUE, pay) IN
            /\ run' = [run EXCEPT ![s].pc = "teardown",
                                  ![s].win_members = a.win_members,
                                  ![s].lose_members = a.lose_members,
                                  ![s].draw_members = a.draw_members,
                                  ![s].host_return = host_return]
            /\ balance' = add_stell_all(done, balance)
            /\ accounts' = accounts \cup {done[i][1] : i \in 1..Len(done)}
            /\ cred' = [cred EXCEPT ![s] = add_stell_all(done, @)]
    /\ UNCHANGED <<total_earned, transactions, nextTxId, handlers, table,
                   sessions, cooldowns, nSess, sess, view, joining, deb>>

\* end of the round: cooldowns of all_members, the channel's key is deleted
PvpTeardown(s) ==
    /\ run[s].pc = "teardown"
    /\ cooldowns' = cooldowns \cup SeqSet(run[s].all_members)
    /\ sessions' = [sessions EXCEPT ![sess[s].channel_id] = 0]
    /\ run' = [run EXCEPT ![s] = [NoRun EXCEPT !.pc = "done"]]
    /\ UNCHANGED <<ledger, handlers, table, nSess, sess, view, joining, deb,
                   cred>>

\* ------------------------------------------------------------- the specs
\* Spec: one PvP session among three users, with transfers between them as
\* the ledger traffic that interleaves with the round; a user has at most
\* one join_btn handler in flight.
RoundSessions == 1
RoundChannels == {1}
RoundInflight == 1
\* the receiver a sender picks in Spec: the next user, the last one the first
RoundPayee(a) == (a % NumUsers) + 1

Next ==
    \/ \E t \in Transfers, a \in Users, n \in TransferAmounts :
           TransferOpen(t, a, RoundPayee(a), n)
    \/ \E t \in Transfers, u \in Users : TransferConfirm(t, u)
    \/ \E t \in Transfers, f \in BOOLEAN : TransferWrite(t, f)
    \/ \E t \in Transfers, u \in Users : TransferCancel(t, u)
    \/ \E u \in Users, b \in BET_CHOICES, c \in RoundChannels :
           nSess < RoundSessions /\ CreateCheck(u, b, c)
    \/ \E s \in Sessions : CreateInsert(s)
    \/ \E s \in Sessions, u \in Users :
           joining[s][u] < RoundInflight /\ JoinCheck(s, u)
    \/ \E s \in Sessions, u \in Users : JoinFinish(s, u)
    \/ \E s \in Sessions, u \in Users : StartBtn(s, u)
    \/ \E s \in Sessions : Timeout(s)
    \/ \E c \in Channels, u \in Users : Cancel(c, u)
    \/ \E s \in Sessions : PvpBegin(s)
    \/ \E s \in Sessions : PvpValidate(s)
    \/ \E s \in Sessions : PvpDebitRead(s)
    \/ \E s \in Sessions : PvpDebitWrite(s)
    \/ \E s \in Sessions, sh \in BOOLEAN,
          r \in RollSeqs(RoundSamples, MAX_TRIES) : PvpHostRoll(s, sh, r)
    \/ \E s \in Sessions :
           \E res \in [SeqSet(sess[s].players) -> ChildResults] :
               PvpChildRolls(s, res)
    \/ \E s \in Sessions : PvpShonbenPay(s)
    \/ \E s \in Sessions : PvpSettle(s)
    \/ \E s \in Sessions : PvpTeardown(s)

Spec == Init /\ [][Next]_vars

\* SpecFair: Spec with the view's timer running.  A view that has not been
\* stopped gets its on_timeout call once its timeout has passed, whatever
\* else the event loop is doing; nothing in the code stops the recruit view.
SpecFair == Spec /\ \A s \in Sessions : WF_vars(Timeout(s))

\* SpecLedger: every ledger operation (update_balance, transfer, salary
\* payment and its rollback) next to one PvP session, all between two users.
LedgerUsers == {1, 2}
LedgerOps == 1

NextLedger ==
    \/ \E u \in LedgerUsers, d \in DeltaChoices :
           opsDone < LedgerOps /\ UpdateBalance(u, d, "SLOT", Null)
    \/ \E t \in Transfers, a \in LedgerUsers, b \in LedgerUsers,
          n \in TransferAmounts : TransferOpen(t, a, b, n)
    \/ \E t \in Transfers, u \in LedgerUsers : TransferConfirm(t, u)
    \/ \E t \in Transfers, f \in BOOLEAN : TransferWrite(t, f)
    \/ \E t \in Transfers, u \in LedgerUsers : TransferCancel(t, u)
    \/ \E m \in (SUBSET LedgerUsers) \ {{}}, w \in WageChoices :
           SalaryPay(m, w)
    \/ \E k \in Rollbacks, b \in Batches : SalaryRollbackRead(k, b)
    \/ \E k \in Rollbacks : SalaryRollbackWrite(k)
    \/ \E u \in LedgerUsers, b \in BET_CHOICES, c \in RoundChannels :
           nSess < RoundSessions /\ CreateCheck(u, b, c)
    \/ \E s \in Sessions : CreateInsert(s)
    \/ \E s \in Sessions, u \in LedgerUsers :
           joining[s][u] < RoundInflight /\ JoinCheck(s, u)
    \/ \E s \in Sessions, u \in LedgerUsers : JoinFinish(s, u)
    \/ \E s \in Sessions, u \in LedgerUsers : StartBtn(s, u)
    \/ \E s \in Sessions : Timeout(s)
    \/ \E c \in Channels, u \in LedgerUsers : Cancel(c, u)
    \/ \E s \in Sessions : PvpBegin(s)
    \/ \E s \in Sessions : PvpValidate(s)
    \/ \E s \in Sessions : PvpDebitRead(s)
    \/ \E s \in Sessions : PvpDebitWrite(s)
    \/ \E s \in Sessions, sh \in BOOLEAN,
          r \in RollSeqs(RoundSamples, MAX_TRIES) : PvpHostRoll(s, sh, r)
    \/ \E s \in Sessions :
           \E res \in [SeqSet(sess[s].players) -> ChildResults] :
               PvpChildRolls(s, res)
    \/ \E s \in Sessions : PvpShonbenPay(s)
    \/ \E s \in Sessions : PvpSettle(s)
    \/ \E s \in Sessions : PvpTeardown(s)

SpecLedger == Init /\ [][NextLedger]_vars

\* SpecLobby: the session registry with two create requests on the two
\* channels, joins (a user may press Join again while an earlier press is
\* still being handled), cancels and view timeouts; nobody presses Start.
NextLobby ==
    \/ \E u \in Users, b \in BET_CHOICES, c \in Channels : CreateCheck(u, b, c)
    \/ \E s \in Sessions : CreateInsert(s)
    \/ \E s \in Sessions, u \in Users : JoinCheck(s, u)
    \/ \E s \in Sessions, u \in Users : JoinFinish(s, u)
    \/ \E s \in Sessions : Timeout(s)
    \/ \E c \in Channels, u \in Users : Cancel(c, u)

SpecLobby == Init /\ [][NextLobby]_vars

\* SpecDelta: update_balance alone, called on accounts that are missing,
\* empty or funded.
OpeningBalances == {0, 1060, 2060}

InitDelta ==
    /\ accounts \in SUBSET Users
    /\ balance \in [Users -> OpeningBalances]
    /\ \A u \in Users : u \notin accounts => balance[u] = 0
    /\ total_earned = balance
    /\ transactions = {}
    /\ nextTxId = 1
    /\ opsDone = 0
    /\ xfer = [t \in Transfers |-> NoXfer]
    /\ nBatch = 0
    /\ rb = [k \in Rollbacks |-> NoRb]
    /\ sessions = [c \in Channels |-> 0]
    /\ cooldowns = {}
    /\ nSess = 0
    /\ sess = [s \in Sessions |-> NoSess]
    /\ view = [s \in Sessions |-> "none"]
    /\ joining = [s \in Sessions |-> Zero]
    /\ run = [s \in Sessions |-> NoRun]
    /\ deb = [s \in Sessions |-> Zero]
    /\ cred = [s \in Sessions |-> Zero]
    /\ triple = <<>>
    /\ role = NoRole
    /\ versus = <<>>
    /\ verdict = ""
    /\ since = NoEntry
    /\ wait = Unasked
    /\ all_rolls = <<>>
    /\ last_role = <<0, 0>>
    /\ loop_done = TRUE

NextDelta ==
    \E u \in Users, d \in DeltaChoices : UpdateBalance(u, d, "SLOT", Null)

SpecDelta == InitDelta /\ [][NextDelta]_vars

\* SpecSalary: salary batches, update_balance calls that carry the id of a
\* paid batch, and the rollback of a batch.
DeltaTypes == {"SLOT", "SALARY"}

NextSalary ==
    \/ \E m \in (SUBSET Users) \ {{}}, w \in WageChoices : SalaryPay(m, w)
    \/ \E u \in Users, d \in DeltaChoices, ty \in DeltaTypes,
          b \in 1..nBatch : UpdateBalance(u, d, ty, b)
    \/ \E k \in Rollbacks, b \in Batches : SalaryRollbackRead(k, b)
    \/ \E k \in Rollbacks : SalaryRollbackWrite(k)

SpecSalary == Init /\ [][NextSalary]_vars

\* SpecDice: judge_roll on every one of the 6 * 6 * 6 ordered dice triples
\* that three calls of random.randint(1, 6) can produce
AllDice == [1..3 -> 1..6]

InitDice ==
    /\ accounts = Users
    /\ balance = [u \in Users |-> InitBalance]
    /\ total_earned = [u \in Users |-> InitBalance]
    /\ transactions = {}
    /\ nextTxId = 1
    /\ opsDone = 0
    /\ xfer = [t \in Transfers |-> NoXfer]
    /\ nBatch = 0
    /\ rb = [k \in Rollbacks |-> NoRb]
    /\ sessions = [c \in Channels |-> 0]
    /\ cooldowns = {}
    /\ nSess = 0
    /\ sess = [s \in Sessions |-> NoSess]
    /\ view = [s \in Sessions |-> "none"]
    /\ joining = [s \in Sessions |-> Zero]
    /\ run = [s \in Sessions |-> NoRun]
    /\ deb = [s \in Sessions |-> Zero]
    /\ cred = [s \in Sessions |-> Zero]
    /\ triple \in AllDice
    /\ role = NoRole
    /\ versus = <<>>
    /\ verdict = ""
    /\ since = NoEntry
    /\ wait = Unasked
    /\ all_rolls = <<>>
    /\ last_role = <<0, 0>>
    /\ loop_done = TRUE

\* role_name, score, mult = judge_roll(dice)
JudgeRoll ==
    /\ triple # <<>>
    /\ role = NoRole
    /\ role' = judge_roll(triple)
    /\ UNCHANGED <<ledger, handlers, game, triple, versus, verdict, since,
                   wait, all_rolls, last_role, loop_done>>

NextDice == JudgeRoll

SpecDice == InitDice /\ [][NextDice]_vars

\* SpecCompare: determine_outcome on every pair of results judge_roll can
\* return (a result is <<score, mult>>)
Outcomes == {judge_roll(d) : d \in AllDice}

InitCompare ==
    /\ accounts = Users
    /\ balance = [u \in Users |-> InitBalance]
    /\ total_earned = [u \in Users |-> InitBalance]
    /\ transactions = {}
    /\ nextTxId = 1
    /\ opsDone = 0
    /\ xfer = [t \in Transfers |-> NoXfer]
    /\ nBatch = 0
    /\ rb = [k \in Rollbacks |-> NoRb]
    /\ sessions = [c \in Channels |-> 0]
    /\ cooldowns = {}
    /\ nSess = 0
    /\ sess = [s \in Sessions |-> NoSess]
    /\ view = [s \in Sessions |-> "none"]
    /\ joining = [s \in Sessions |-> Zero]
    /\ run = [s \in Sessions |-> NoRun]
    /\ deb = [s \in Sessions |-> Zero]
    /\ cred = [s \in Sessions |-> Zero]
    /\ triple = <<>>
    /\ role = NoRole
    /\ versus \in Outcomes \X Outcomes
    /\ verdict = ""
    /\ since = NoEntry
    /\ wait = Unasked
    /\ all_rolls = <<>>
    /\ last_role = <<0, 0>>
    /\ loop_done = TRUE

\* outcome = determine_outcome(h_mult, h_score, mult, score)
Compare ==
    /\ versus # <<>>
    /\ verdict = ""
    /\ verdict' = determine_outcome(versus[1][2], versus[1][1],
                                    versus[2][2], versus[2][1])
    /\ UNCHANGED <<ledger, handlers, game, triple, role, versus, since,
                   wait, all_rolls, last_role, loop_done>>

NextCompare == Compare

SpecCompare == InitCompare /\ [][NextCompare]_vars

\* SpecCooldown: _check_cd for a user without a cooldown entry and for every
\* age of the entry from 0 to MaxElapsed ticks
\* int(rem) for rem > 0, rem given in ticks
int_seconds(ticks) == ticks \div TicksPerSecond

\* _check_cd: the remaining wait it reports, None when it reports none
check_cd(elapsed) ==
    IF elapsed # NoEntry
            /\ COOLDOWN_SECONDS * TicksPerSecond - elapsed > 0
    THEN int_seconds(COOLDOWN_SECONDS * TicksPerSecond - elapsed) + 1
    ELSE None

InitCooldown ==
    /\ accounts = Users
    /\ balance = [u \in Users |-> InitBalance]
    /\ total_earned = [u \in Users |-> InitBalance]
    /\ transactions = {}
    /\ nextTxId = 1
    /\ opsDone = 0
    /\ xfer = [t \in Transfers |-> NoXfer]
    /\ nBatch = 0
    /\ rb = [k \in Rollbacks |-> NoRb]
    /\ sessions = [c \in Channels |-> 0]
    /\ cooldowns = {}
    /\ nSess = 0
    /\ sess = [s \in Sessions |-> NoSess]
    /\ view = [s \in Sessions |-> "none"]
    /\ joining = [s \in Sessions |-> Zero]
    /\ run = [s \in Sessions |-> NoRun]
    /\ deb = [s \in Sessions |-> Zero]
    /\ cred = [s \in Sessions |-> Zero]
    /\ triple = <<>>
    /\ role = NoRole
    /\ versus = <<>>
    /\ verdict = ""
    /\ since \in {NoEntry} \cup 0..MaxElapsed
    /\ wait = Unasked
    /\ all_rolls = <<>>
    /\ last_role = <<0, 0>>
    /\ loop_done = TRUE

\* rem = self._check_cd(user.id)
CheckCd ==
    /\ wait = Unasked
    /\ wait' = check_cd(since)
    /\ UNCHANGED <<ledger, handlers, game, triple, role, versus, verdict,
                   since, all_rolls, last_role, loop_done>>

NextCooldown == CheckCd

SpecCooldown == InitCooldown /\ [][NextCooldown]_vars

\* SpecRolls: the loop of roll_until_role, one iteration per step.  The dice
\* of an iteration are drawn from the triples in ascending order, one for
\* every combination of faces.
SortedDice == {d \in AllDice : d[1] <= d[2] /\ d[2] <= d[3]}

InitRolls ==
    /\ accounts = Users
    /\ balance = [u \in Users |-> InitBalance]
    /\ total_earned = [u \in Users |-> InitBalance]
    /\ transactions = {}
    /\ nextTxId = 1
    /\ opsDone = 0
    /\ xfer = [t \in Transfers |-> NoXfer]
    /\ nBatch = 0
    /\ rb = [k \in Rollbacks |-> NoRb]
    /\ sessions = [c \in Channels |-> 0]
    /\ cooldowns = {}
    /\ nSess = 0
    /\ sess = [s \in Sessions |-> NoSess]
    /\ view = [s \in Sessions |-> "none"]
    /\ joining = [s \in Sessions |-> Zero]
    /\ run = [s \in Sessions |-> NoRun]
    /\ deb = [s \in Sessions |-> Zero]
    /\ cred = [s \in Sessions |-> Zero]
    /\ triple = <<>>
    /\ role = NoRole
    /\ versus = <<>>
    /\ verdict = ""
    /\ since = NoEntry
    /\ wait = Unasked
    /\ all_rolls = <<>>
    /\ last_role = <<0, 0>>
    /\ loop_done = FALSE

\* a loop that always goes on to the last try
loop_ends_at_max(mult, n) == n = MAX_TRIES

\* the loop ends after iteration n: `if mult != 0: break`, or range(max_tries)
\* is used up
loop_ends(mult, n) == mult # 0 \/ n = MAX_TRIES

\* one iteration: throw, append to all_rolls, judge, break on a role
RollOnce(d) ==
    /\ ~loop_done
    /\ all_rolls' = Append(all_rolls, d)
    /\ last_role' = judge_roll(d)
    /\ loop_done' = loop_ends(judge_roll(d)[2], Len(all_rolls) + 1)
    /\ UNCHANGED <<ledger, handlers, game, triple, role, versus, verdict,
                   since, wait>>

NextRolls == \E d \in SortedDice : RollOnce(d)

SpecRolls == InitRolls /\ [][NextRolls]_vars

TypeOK ==
    /\ accounts \subseteq Users
    /\ loop_done \in BOOLEAN
    /\ since \in {NoEntry} \cup 0..MaxElapsed
    /\ verdict \in {"", "child_win", "host_win", "draw"}
    /\ triple \in {<<>>} \cup AllDice
    /\ balance \in [Users -> Int]
    /\ \A s \in Sessions : run[s].pc \in
           {"idle", "start", "validate", "debit", "debit_write", "host_roll",
            "shonben", "child_roll", "settle", "teardown", "done", "crashed"}

\* -------------------------------------------------------------- properties
\* what the round moved for user u so far: credits minus debits
Moved(s, u) == cred[s][u] - deb[s][u]

\* the round of session s went through the normal settlement and has not
\* been torn down yet
Settled(s) == run[s].pc = "teardown" /\ ~run[s].h.shonben

\* C1: in every reachable state, whatever the interleaving of update_balance,
\* transfers, Start debits, settlement credits and salary rollbacks, the
\* balance of every account is at least 0.
C1_BalanceNonNegative == \A u \in Users : balance[u] >= 0

\* a Start debit was refused by the CHECK after a transfer emptied the
\* account between the debit's read and its write
C1_Witness ==
    \E s \in Sessions :
        /\ run[s].pc = "crashed"
        /\ ~run[s].h.rolled
        /\ deb[s] = Zero
        /\ \E u \in SeqSet(run[s].all_members) : balance[u] < Need(s)

\* C2: for every completed PvP round, the participants' balance changes over
\* the round plus venue fee times the number of participants sum to zero.
\* Stated for the rounds in which every participant was debited at Start
\* and the roster is the one the round started with.
C2_RoundConserves ==
    \A s \in Sessions :
        (/\ run[s].pc = "teardown"
         /\ run[s].all_members = <<sess[s].host>> \o sess[s].players
         /\ \A u \in SeqSet(run[s].all_members) : deb[s][u] = Need(s)) =>
            SumOver(Users, [u \in Users |-> Moved(s, u)])
              + venue_fee(sess[s].bet) * Len(run[s].all_members) = 0

\* C3: once a Start has got past its debit step, every participant has been
\* debited bet + venue fee: the round never rolls with somebody not debited.
C3_AllDebitedBeforeRolling ==
    \A s \in Sessions :
        run[s].pc \in {"host_roll", "shonben", "child_roll", "settle",
                       "teardown"} =>
            \A u \in SeqSet(run[s].all_members) : deb[s][u] = Need(s)

\* C4: a create request stores its session only under a channel id that
\* holds no session: of two requests for one channel at most one creates.
C4_CreateOnlyOnFreeChannel ==
    [][\A s \in Sessions :
          (sess[s].st = "creating" /\ sess'[s].st = "live") =>
              sessions[sess[s].channel_id] = 0]_vars

\* C5: if the re-validation of a Start reads a participant's balance (host
\* included) below bet + venue fee, the Start never gets past validation,
\* and up to there the round has changed nobody's balance.
C5_ShortStartFails ==
    \A s \in Sessions :
        /\ run[s].seen_short => run[s].pc = "validate"
        /\ (run[s].pc \in {"idle", "start", "validate"} \/ run[s].refused) =>
               (deb[s] = Zero /\ cred[s] = Zero)

\* a Start was refused: the session is back in recruiting, nothing debited,
\* and somebody on the roster cannot cover bet + venue fee
C5_Witness ==
    \E s \in Sessions :
        /\ run[s].refused
        /\ deb[s] = Zero
        /\ \E u \in {sess[s].host} \cup SeqSet(sess[s].players) :
               get_stell(u) < Need(s)

\* C6 as stated: the bonuses paid to the winners of a round sum to at most
\* bet times the number of losers.
C6_BonusesWithinLosers ==
    \A s \in Sessions :
        Settled(s) =>
            SumWins(run[s].win_members)
                <= sess[s].bet * Len(run[s].lose_members)

\* C6 amended: the bonuses paid to the winners of a round sum to at most
\* bet times the number of players on the roster when the rolling began.
C6_BonusesWithinPool ==
    \A s \in Sessions :
        Settled(s) =>
            SumWins(run[s].win_members) <= sess[s].bet * run[s].num_children

\* a winner whose bonus was cut down to what was left of the pool
C6_Witness ==
    \E s \in Sessions :
        /\ Settled(s)
        /\ \E i \in 1..Len(run[s].win_members) :
               run[s].win_members[i].actual_win
                   < sess[s].bet * pvp_payout_mult(run[s].win_members[i].mult)
        /\ SumWins(run[s].win_members) = sess[s].bet * run[s].num_children

\* C7: the host's net balance change over a round, the venue fee left out,
\* is never below -bet.
C7_HostLosesAtMostAnte ==
    \A s \in Sessions :
        sess[s].st = "live" =>
            Moved(s, sess[s].host)
                + (IF deb[s][sess[s].host] > 0 THEN venue_fee(sess[s].bet)
                   ELSE 0)
              >= -sess[s].bet

\* the winners' bonuses exceed the host's ante plus the antes lost to the
\* host, and the host got nothing back
C7_Witness ==
    \E s \in Sessions :
        /\ Settled(s)
        /\ run[s].host_return < 0
        /\ deb[s][sess[s].host] = Need(s)
        /\ cred[s][sess[s].host] = 0

\* C8: the winners are processed in roster order against a pool that starts
\* at bet times the number of players; each winner's bonus is the smaller of
\* bet times the category multiplier (5, 3, 2, 1 for a numbered roll, 0 for
\* no result) and what is left of the pool, the pool goes down by the bonus,
\* the winner is credited bet + bonus, and the bonuses sum to at most bet
\* times the number of players.
C8_WinnerBonus ==
    \A s \in Sessions :
        Settled(s) =>
            LET w == run[s].win_members
                bet == sess[s].bet
                pool == bet * run[s].num_children
                categoryMultiplier(mult) ==
                    IF mult \in {5, 3, 2} THEN mult
                    ELSE IF mult = None THEN 1
                    ELSE 0
                pos(m) == CHOOSE i \in 1..Len(sess[s].players) :
                              sess[s].players[i] = m
            IN  /\ \A i \in 1..Len(w) :
                       /\ w[i].actual_win =
                              Min(bet * categoryMultiplier(w[i].mult),
                                  pool - SumWins(SubSeq(w, 1, i - 1)))
                       /\ cred[s][w[i].m] = bet + w[i].actual_win
                /\ \A i, j \in 1..Len(w) :
                       i < j => pos(w[i].m) < pos(w[j].m)
                /\ SumWins(w) <= pool

\* C9: the phase of a session only moves forward: once it is rolling it is
\* never recruiting again, a rejected Start included.
C9_PhaseNeverBackToRecruiting ==
    [][\A s \in Sessions :
          sess[s].phase = "rolling" => sess'[s].phase # "recruiting"]_vars

\* C10: a view timeout that fires after Start was accepted (the phase is not
\* recruiting any more) leaves the registry as it is.
C10_LateTimeoutIsNoOp ==
    [][\A s \in Sessions :
          (view[s] = "live" /\ view'[s] = "timedout"
             /\ sess[s].phase = "rolling") =>
              sessions' = sessions]_vars

\* C11: once a session has been destroyed by Cancel or by Timeout, no Join
\* adds a player to it, no Start is accepted on it, and nothing is debited
\* or credited on its behalf.
C11_DestroyedIsGone ==
    [][\A s \in Sessions :
          sess[s].destroyed =>
              /\ sess'[s].players = sess[s].players
              /\ sess'[s].phase = sess[s].phase
              /\ deb'[s] = deb[s]
              /\ cred'[s] = cred[s]]_vars

\* C12: once a Start has been accepted (it got past its validation) the
\* roster of the session is never modified, whatever Join handlers were
\* suspended on their balance read when Start was pressed.
C12_RosterFixedAfterStart ==
    [][\A s \in Sessions :
          run[s].pc \notin {"idle", "start", "validate"} =>
              sess'[s].players = sess[s].players]_vars

\* C13: in every reachable state the players list of a session holds no
\* user twice, does not hold the host and has at most 7 entries.
C13_RosterWellFormed ==
    \A s \in Sessions :
        LET p == sess[s].players IN
        /\ \A i, j \in 1..Len(p) : i # j => p[i] # p[j]
        /\ sess[s].host \notin SeqSet(p)
        /\ Len(p) <= MAX_PLAYERS

\* C14: the settlement credits of a round are one atomic batch: when a
\* write of the settlement fails, none of the round's settlement credits is
\* in the ledger afterwards.
C14_SettlementAtomic ==
    \A s \in Sessions : run[s].pc = "crashed" => cred[s] = Zero

\* the settlement failed on a roster entry that never rolled, after its loop
\* had already credited an earlier player
C14_Witness ==
    \E s \in Sessions :
        /\ run[s].pc = "crashed"
        /\ run[s].h.rolled /\ ~run[s].h.shonben
        /\ \E i \in 1..Len(sess[s].players) :
               /\ ~run[s].results[sess[s].players[i]].rolled
               /\ \E j \in 1..(i - 1) :
                      LET c == run[s].results[sess[s].players[j]] IN
                      /\ c.rolled /\ ~c.shonben
                      /\ determine_outcome(run[s].h.mult, run[s].h.score,
                                           c.mult, c.score) # "host_win"
        /\ cred[s] = Zero

\* C15: every balance movement of a PvP round appends a transactions row:
\* with transfers and the round as the only ledger traffic, each account's
\* balance is its opening balance plus what the rows of the log moved in and
\* out of it.
C15_LogAccountsForRound ==
    \A u \in Users :
        balance[u] - InitBalance =
            SumOver(transactions,
                    [r \in transactions |->
                        (IF r.receiver_id = u THEN r.amount ELSE 0)
                          - (IF r.sender_id = u THEN r.amount ELSE 0)])

\* C16: concurrent debits on one account that it cannot cover together are
\* never all applied: for an account that no credit has reached, the debits
\* that went through (transfers sent, negative update_balance deltas, Start
\* debits) sum to at most its opening balance; and a Start debit refused at
\* its write has debited nothing.
C16_NoDoubleSpend ==
    /\ \A u \in Users :
           LET sent == {r \in transactions :
                           \/ r.sender_id = u /\ r.type = "TRANSFER"
                           \/ r.receiver_id = u /\ r.amount < 0}
               got == {r \in transactions :
                           r.receiver_id = u /\ r.amount > 0}
               out == SumOver(sent, [r \in sent |->
                                       IF r.amount < 0 THEN -r.amount
                                       ELSE r.amount])
                        + SumOver(Sessions, [s \in Sessions |-> deb[s][u]])
           IN  (got = {} /\ \A s \in Sessions : cred[s][u] = 0) =>
                   out <= InitBalance
    /\ \A s \in Sessions :
           (run[s].pc = "crashed" /\ ~run[s].h.rolled) => deb[s] = Zero

\* a Start debit read a balance that covered it, another debit of the same
\* account was committed first, and the Start debit was refused
C16_Witness ==
    \E s \in Sessions, u \in Users :
        /\ run[s].pc = "crashed" /\ ~run[s].h.rolled
        /\ u \in SeqSet(run[s].all_members)
        /\ \E r \in transactions :
               \/ r.sender_id = u /\ r.type = "TRANSFER"
               \/ r.receiver_id = u /\ r.amount < 0
        /\ balance[u] < Need(s)
        /\ deb[s] = Zero

\* C17: an update_balance debit whose amount exceeds the balance of the
\* account changes neither balance nor total_earned, creates no account and
\* appends no transactions row.
C17_RefusedDebitChangesNothing ==
    [][\A u \in Users, d \in DeltaChoices :
          (d < 0 /\ balance[u] < -d /\ UpdateBalance(u, d, "SLOT", Null)) =>
              UNCHANGED <<accounts, balance, total_earned, transactions,
                          nextTxId>>]_vars

\* only refused debits so far, made while nobody had an account
C17_Witness ==
    /\ opsDone > 0
    /\ transactions = {}
    /\ accounts = {}

\* C18 as stated: every successful update_balance(u, d) sets the balance to
\* old + d, raises total_earned by max(d, 0) and appends exactly one
\* transactions row, whose amount is |d|.
C18_RowHoldsMagnitude ==
    [][\A u \in Users, d \in DeltaChoices :
          (~(d < 0 /\ balance[u] < -d) /\ UpdateBalance(u, d, "SLOT", Null)) =>
              /\ balance'[u] = balance[u] + d
              /\ total_earned'[u] = total_earned[u] + (IF d > 0 THEN d ELSE 0)
              /\ \E r \in transactions' :
                     /\ transactions' \ transactions = {r}
                     /\ r.receiver_id = u
                     /\ r.amount = (IF d < 0 THEN -d ELSE d)]_vars

\* C18 amended: every successful update_balance(u, d) sets the balance to
\* old + d, raises total_earned by max(d, 0) and appends exactly one
\* transactions row, whose amount is d itself, negative for a debit.
C18_RowHoldsDelta ==
    [][\A u \in Users, d \in DeltaChoices :
          (~(d < 0 /\ balance[u] < -d) /\ UpdateBalance(u, d, "SLOT", Null)) =>
              /\ balance'[u] = balance[u] + d
              /\ total_earned'[u] = total_earned[u] + (IF d > 0 THEN d ELSE 0)
              /\ \E r \in transactions' :
                     /\ transactions' \ transactions = {r}
                     /\ r.receiver_id = u
                     /\ r.amount = d]_vars

\* a debit went through: its row carries the negative delta, and what the
\* account ever earned stands above what it holds
C18_Witness ==
    \E r \in transactions :
        /\ r.amount < 0
        /\ total_earned[r.receiver_id] > balance[r.receiver_id]

\* C19: a transfer is all-or-nothing: its write either takes amount from
\* the sender, gives amount to the receiver and appends one TRANSFER row, or
\* (short balance, or a failure at any step) changes no balance and appends
\* no row; the two balances sum to the same before and after.  A confirm
\* that refuses on its balance read changes nothing either.
C19_TransferAllOrNothing ==
    [][\A t \in Transfers :
          LET x == xfer[t]
              row == [id |-> nextTxId, sender_id |-> x.sender,
                      receiver_id |-> x.receiver, amount |-> x.amount,
                      type |-> "TRANSFER", batch_id |-> Null]
          IN
          /\ (x.st = "write" /\ xfer'[t].st = "closed") =>
                 /\ \/ /\ balance'[x.sender] = balance[x.sender] - x.amount
                       /\ balance'[x.receiver] = balance[x.receiver] + x.amount
                       /\ transactions' = transactions \cup {row}
                       /\ row \notin transactions
                    \/ /\ balance' = balance
                       /\ transactions' = transactions
                 /\ balance'[x.sender] + balance'[x.receiver]
                        = balance[x.sender] + balance[x.receiver]
                 /\ \A u \in Users \ {x.sender, x.receiver} :
                        balance'[u] = balance[u]
          /\ (x.st = "open" /\ xfer'[t].st # "open") =>
                 (balance' = balance /\ transactions' = transactions)]_vars

\* one transfer went through and one Start debit has been committed since
C19_Witness ==
    \E r \in transactions :
        /\ r.type = "TRANSFER"
        /\ balance[r.receiver_id] >= r.amount
        /\ \E s \in Sessions : deb[s][r.sender_id] > 0

C21_FailedRollbackChangesNothing ==
    [][\A k \in Rollbacks :
          (/\ rb[k].st = "write" /\ rb'[k].st = "done"
           /\ \E u \in Users :
                  LET mine == {r \in rb[k].rows : r.receiver_id = u}
                  IN  balance[u] - SumOver(mine, [r \in mine |-> r.amount]) < 0)
          => UNCHANGED <<balance, total_earned, transactions>>]_vars

\* a rollback has failed on its second row: the batch paid two accounts,
\* its rows are still there, and the second account no longer covers its pay
C21_Witness ==
    \E k \in Rollbacks, r1, r2 \in transactions :
        /\ rb[k].st = "done"
        /\ r1.type = "SALARY" /\ r2.type = "SALARY"
        /\ r1.sender_id = 0 /\ r2.sender_id = 0
        /\ r1.id < r2.id
        /\ balance[r1.receiver_id] >= r1.amount
        /\ balance[r2.receiver_id] < r2.amount

\* C22: when the host's pre-roll forced loss fires, the payout credits every
\* player on the roster exactly 2 x bet and the host nothing; no dice are
\* rolled and no comparison is made for that round (no result, no winner,
\* loser or draw is recorded); and the round ends by removing the session
\* from the registry.
C22_HostForcedLoss ==
    [][\A s \in Sessions :
          /\ (run[s].pc = "shonben" /\ run'[s].pc # "shonben") =>
                 /\ run'[s].pc = "teardown"
                 /\ \A u \in Users :
                        cred'[s][u] - cred[s][u] =
                            IF u \in SeqSet(sess[s].players)
                            THEN 2 * sess[s].bet ELSE 0
                 /\ cred'[s][sess[s].host] = 0
          /\ run'[s].h.shonben =>
                 /\ \A u \in Users : run'[s].results[u] = NoResult
                 /\ run'[s].win_members = <<>>
                 /\ run'[s].lose_members = <<>>
                 /\ run'[s].draw_members = <<>>
                 /\ run'[s].pc \in {"shonben", "teardown"}
          /\ (run[s].h.shonben /\ run[s].pc = "teardown"
                /\ run'[s].pc # "teardown") =>
                 /\ run'[s].pc = "done"
                 /\ sessions'[sess[s].channel_id] = 0]_vars

\* the forced loss of a host with two players has been paid out
C22_Witness ==
    \E s \in Sessions :
        /\ run[s].pc = "teardown" /\ run[s].h.shonben
        /\ Len(sess[s].players) = 2
        /\ \A u \in SeqSet(sess[s].players) : cred[s][u] = 2 * sess[s].bet
        /\ cred[s][sess[s].host] = 0

\* C23: the settlement of a round credits each player who draws with the
\* host exactly bet and each player who loses (by comparison or by the
\* player's own pre-roll forced loss) nothing; the host is credited their own
\* stake plus one bet per loser minus the bonuses paid to the winners, when
\* that amount is positive.
C23_DrawsAndLosers ==
    [][\A s \in Sessions :
          (run[s].pc = "settle" /\ run'[s].pc = "teardown") =>
              LET bet == sess[s].bet
                  got(u) == cred'[s][u] - cred[s][u]
                  D == SeqSet(run'[s].draw_members)
                  L == SeqSet(run'[s].lose_members)
                  W == {run'[s].win_members[i].m :
                            i \in 1..Len(run'[s].win_members)}
                  bonus == SumOver(W, [u \in W |-> got(u) - bet])
                  due == bet + Cardinality(L) * bet - bonus
              IN  /\ \A u \in D : got(u) = bet
                  /\ \A u \in L : got(u) = 0
                  /\ \A u \in L :
                         \/ run[s].results[u].shonben
                         \/ determine_outcome(run[s].h.mult, run[s].h.score,
                                run[s].results[u].mult,
                                run[s].results[u].score) = "host_win"
                  /\ \A u \in D :
                         /\ ~run[s].results[u].shonben
                         /\ determine_outcome(run[s].h.mult, run[s].h.score,
                                run[s].results[u].mult,
                                run[s].results[u].score) = "draw"
                  /\ D \cup L \cup W = SeqSet(sess[s].players)
                  /\ got(sess[s].host) = IF due > 0 THEN due ELSE 0]_vars

\* a round settled with one player drawing and one losing
C23_Witness ==
    \E s \in Sessions :
        /\ Settled(s)
        /\ Len(run[s].draw_members) = 1 /\ Len(run[s].lose_members) = 1
        /\ cred[s][run[s].draw_members[1]] = sess[s].bet
        /\ cred[s][run[s].lose_members[1]] = 0
        /\ cred[s][sess[s].host] = 2 * sess[s].bet

\* C24: in a round that has got past Start's debit step, whatever its
\* outcome, every participant (the host and the players Start was accepted
\* with) has been debited at least the venue fee.
C24_EveryParticipantPaysFee ==
    \A s \in Sessions :
        run[s].pc \in {"host_roll", "shonben", "child_roll", "settle",
                       "teardown"} =>
            \A u \in SeqSet(run[s].all_members) :
                deb[s][u] >= venue_fee(sess[s].bet)

C26_CancelRights ==
    [][\A ch \in Channels, u \in Users :
          Cancel(ch, u) =>
              LET e == sessions[ch] IN
              /\ u = sess[e].host \/ u \in Admins
              /\ sessions'[ch] = 0
              /\ sess[e].phase = "recruiting" =>
                     /\ UNCHANGED <<accounts, balance, total_earned,
                                    transactions>>
                     /\ deb'[e] = Zero /\ cred'[e] = Zero]_vars

\* a recruiting session with a player, hosted by somebody who is not an
\* administrator, has been cancelled while its view was still live
C26_Witness ==
    \E s \in Sessions :
        /\ sess[s].st = "live" /\ sess[s].destroyed /\ view[s] = "live"
        /\ sess[s].phase = "recruiting" /\ sess[s].players # <<>>
        /\ sess[s].host \notin Admins
        /\ sessions[sess[s].channel_id] = 0
        /\ deb[s] = Zero /\ cred[s] = Zero

\* C27: a create command issued on a channel whose key holds a session is
\* turned down (it is no step: only a command that finds the channel free
\* goes on), so the session stored there, the other sessions and the ledger
\* stay as they are; and a create command that goes through, from its check
\* to the storing of its session, changes no balance, no earnings total and
\* no transaction row and debits or credits nothing.
C27_CreateConflict ==
    [][/\ \A u \in Users, b \in BET_CHOICES, ch \in Channels :
              CreateCheck(u, b, ch) =>
                  /\ sessions[ch] = 0
                  /\ sessions' = sessions
                  /\ \A e \in Sessions :
                         sess[e].st = "live" => sess'[e] = sess[e]
                  /\ UNCHANGED <<ledger, deb, cred>>
       /\ \A s \in Sessions :
              CreateInsert(s) =>
                  /\ \A e \in Sessions :
                         sess[e].st = "live" => sess'[e] = sess[e]
                  /\ UNCHANGED <<ledger, deb, cred>>
                  /\ deb[s] = Zero /\ cred[s] = Zero]_vars

\* one channel holds a session with a player on its roster while a second
\* session has been created on the other channel; nothing has been moved
C27_Witness ==
    \E c1, c2 \in Channels :
        /\ c1 # c2
        /\ sessions[c1] # 0 /\ sessions[c2] # 0
        /\ sess[sessions[c1]].players # <<>>
        /\ sess[sessions[c2]].st = "live"
        /\ \A s \in Sessions : deb[s] = Zero /\ cred[s] = Zero
        /\ \A u \in Users : balance[u] = InitBalance

\* C28: no step of a join (the tests up to the balance read, and the rest
\* from the balance read on) changes a balance, an earnings total or a
\* transaction row, or debits or credits anything; and when the balance read
\* is below bet + venue fee the join ends with the roster as it was, while
\* otherwise the joiner is appended to it.
C28_JoinOnlyReads ==
    [][\A s \in Sessions, u \in Users :
          /\ JoinCheck(s, u) =>
                 /\ UNCHANGED <<ledger, deb, cred>>
                 /\ sess' = sess
          /\ JoinFinish(s, u) =>
                 /\ UNCHANGED <<ledger, deb, cred>>
                 /\ IF get_stell(u) < sess[s].bet + venue_fee(sess[s].bet)
                    THEN sess' = sess
                    ELSE sess'[s].players = Append(sess[s].players, u)]_vars

\* a recruiting session with a player on its roster and a join in flight for
\* a user whose balance has dropped below bet + venue fee
C28_Witness ==
    \E s \in Sessions, u \in Users :
        /\ sess[s].phase = "recruiting" /\ sessions[sess[s].channel_id] = s
        /\ sess[s].players # <<>>
        /\ joining[s][u] > 0
        /\ get_stell(u) < sess[s].bet + venue_fee(sess[s].bet)
        /\ balance[u] + balance[sess[s].players[1]] + balance[sess[s].host]
               = 3 * InitBalance

\* C29: a press of the start button takes effect only when the caller is
\* the host, the phase is recruiting and at least one player has joined (any
\* other press is no step: phase, roster and balances stay); the press that
\* takes effect sets the phase to rolling and by itself changes neither the
\* roster nor the ledger.
C29_StartRejections ==
    [][\A s \in Sessions, u \in Users :
          StartBtn(s, u) =>
              /\ u = sess[s].host
              /\ sess[s].phase = "recruiting"
              /\ Len(sess[s].players) >= 1
              /\ sess'[s].phase = "rolling"
              /\ sess'[s].players = sess[s].players
              /\ UNCHANGED <<ledger, deb, cred>>]_vars

\* a round is at its rolls while the view still takes presses: the phase is
\* not recruiting, so every press of the start button is turned down
C29_Witness ==
    \E s \in Sessions :
        /\ view[s] = "live" /\ sess[s].phase = "rolling"
        /\ run[s].pc = "child_roll"
        /\ Len(sess[s].players) = 2

\* C30: for every one of the 216 ordered dice triples judge_roll returns,
\* whatever the order of the three dice: multiplier 5 for 1-1-1; multiplier
\* 3 for any other triple, with a score that is higher the higher the
\* repeated face; multiplier 2 for the faces {4,5,6}; the instant loss
\* (multiplier -1) for the faces {1,2,3}; for exactly one pair the numbered
\* outcome (multiplier None) scored by the singleton face, which is in 1..6;
\* and multiplier 0 (no result) for any other three distinct faces.
C30_JudgeRollClassifies ==
    role # NoRole =>
        LET F == {triple[i] : i \in 1..3}
            times(v) == Cardinality({i \in 1..3 : triple[i] = v})
            score == role[1]
            mult == role[2]
        IN  /\ (F = {1}) => mult = 5
            /\ (Cardinality(F) = 1 /\ F # {1}) =>
                   /\ mult = 3
                   /\ \A g \in 2..6 :
                          (g < triple[1]) =>
                              /\ judge_roll(<<g, g, g>>)[2] = 3
                              /\ judge_roll(<<g, g, g>>)[1] < score
            /\ (F = {4, 5, 6}) => mult = 2
            /\ (F = {1, 2, 3}) => mult = -1
            /\ (Cardinality(F) = 2) =>
                   /\ mult = None
                   /\ score \in 1..6
                   /\ score \in F /\ times(score) = 1
            /\ (Cardinality(F) = 3 /\ F # {4, 5, 6} /\ F # {1, 2, 3}) =>
                   mult = 0
            /\ mult \in {5, 3, 2, -1, None, 0}
            /\ \A p \in [1..3 -> 1..3] :
                   (\A i, j \in 1..3 : i # j => p[i] # p[j]) =>
                       judge_roll([i \in 1..3 |-> triple[p[i]]]) = role

\* 4-5-6 thrown out of order has been judged
C30_Witness ==
    /\ triple = <<6, 4, 5>>
    /\ role = <<99, 2>>

\* C31: the comparison of a player's result with the host's is a strict
\* total preorder.  It returns exactly one of win, lose and draw; swapping
\* the two results swaps win and lose; winning is transitive (whoever beats
\* the player of a winning pair beats its host too); it is a draw exactly
\* when category and tiebreak are both equal; and the categories rank
\* 1-1-1 > other triple > 4-5-6 > numbered > no result > 1-2-3, the higher
\* tiebreak winning inside a category.
C31_ComparisonIsPreorder ==
    verdict # "" =>
        LET h == versus[1]
            c == versus[2]
            cat(r) == CASE r[2] = 5 -> 6
                        [] r[2] = 3 -> 5
                        [] r[2] = 2 -> 4
                        [] r[2] = None -> 3
                        [] r[2] = 0 -> 2
                        [] r[2] = -1 -> 1
            cmp(a, b) == determine_outcome(a[2], a[1], b[2], b[1])
        IN  /\ verdict \in {"child_win", "host_win", "draw"}
            /\ cmp(c, h) = CASE verdict = "child_win" -> "host_win"
                             [] verdict = "host_win" -> "child_win"
                             [] verdict = "draw" -> "draw"
            /\ verdict = "child_win" =>
                   \A k \in Outcomes :
                       cmp(c, k) = "child_win" => cmp(h, k) = "child_win"
            /\ verdict = "draw" <=> (cat(h) = cat(c) /\ h[1] = c[1])
            /\ cat(c) > cat(h) => verdict = "child_win"
            /\ cat(c) < cat(h) => verdict = "host_win"
            /\ (cat(c) = cat(h) /\ c[1] > h[1]) => verdict = "child_win"
            /\ (cat(c) = cat(h) /\ c[1] < h[1]) => verdict = "host_win"

\* a host's 1-1-1 (score 100) has been compared with a player's 6-6-6
\* (score 110) and won
C31_Witness ==
    /\ versus = <<<<100, 5>>, <<110, 3>>>>
    /\ verdict = "host_win"

\* C32: the cooldown table is written only by the step that ends a resolved
\* round (after the settlement or after the host's forced loss), and that
\* step records the host and every player on the round's roster; no other
\* step (create, join, a refused start, cancel, timeout) writes it.
C32_CooldownOnlyAtResolution ==
    [][cooldowns' # cooldowns =>
          \E s \in Sessions :
              /\ run[s].pc = "teardown" /\ run'[s].pc = "done"
              /\ cooldowns' = cooldowns \cup {sess[s].host}
                                  \cup SeqSet(sess[s].players)]_vars

\* C33: while the remaining wait is positive the cooldown check returns its
\* ceiling in seconds (exactly r when the remaining wait is a whole number r
\* of seconds); once the window has elapsed, and for a user without an
\* entry, it returns None.
C33_ReturnsCeiling ==
    wait # Unasked =>
        LET rem == COOLDOWN_SECONDS * TicksPerSecond - since
            ceiling == (rem + TicksPerSecond - 1) \div TicksPerSecond
        IN  IF since # NoEntry /\ rem > 0
            THEN wait = ceiling
            ELSE wait = None

\* C34: in a round that has reached its settlement or its end, whoever
\* rolled or was credited belongs to the members Start was accepted with
\* (the ones its debit loop went through), and the number of players the pool
\* is computed from is the number of those members without the host.
C34_OnlyStartRosterPlays ==
    \A s \in Sessions :
        run[s].pc \in {"settle", "teardown"} =>
            /\ \A u \in Users :
                   (run[s].results[u].rolled \/ cred[s][u] > 0) =>
                       u \in SeqSet(run[s].all_members)
            /\ run[s].num_children = Len(run[s].all_members) - 1

\* C35: a step that removes a channel's registry entry acts for the session
\* the entry holds: it is that session's own timeout, that session's own
\* end-of-round teardown, or a cancel command on the channel.  (Stated for
\* an entry whose channel had been given up by every earlier session, so
\* that two sessions stored by racing create commands do not count.)
C35_RemovedByOwnSession ==
    [][\A ch \in Channels :
          (/\ sessions[ch] # 0 /\ sessions'[ch] = 0
           /\ \A a \in Sessions :
                  (a # sessions[ch] /\ sess[a].st = "live"
                      /\ sess[a].channel_id = ch) => sess[a].destroyed) =>
              LET e == sessions[ch] IN
              \/ view[e] = "live" /\ view'[e] = "timedout"
              \/ run[e].pc = "teardown" /\ run'[e].pc = "done"
              \/ \E u \in Users : Cancel(ch, u)]_vars

\* C36: for each session the Start debit is committed at most once and the
\* round's credits (the settlement or the forced-loss payout) are committed
\* at most once: a step that debits for a session finds nothing debited for
\* it yet and takes bet + venue fee from a member at most, and a step that
\* credits for a session finds nothing credited for it yet.
C36_DebitAndPayoutOnce ==
    [][\A s \in Sessions :
          /\ deb'[s] # deb[s] =>
                 /\ deb[s] = Zero
                 /\ \A u \in Users : deb'[s][u] \in {0, Need(s)}
          /\ cred'[s] # cred[s] => cred[s] = Zero]_vars

\* a round has been debited and paid out while its view was still taking
\* presses
C36_Witness ==
    \E s \in Sessions :
        /\ run[s].pc = "teardown" /\ view[s] = "live"
        /\ deb[s][sess[s].host] = Need(s)
        /\ \E u \in Users : cred[s][u] > 0

\* C37: a player who wins with a roll sequence that ended without a result
\* (multiplier 0) faces a host whose roll is the 1-2-3 instant loss, and the
\* settlement credits that player exactly bet (bonus 0).
C37_NoResultWinnerGetsStake ==
    [][\A s \in Sessions :
          (run[s].pc = "settle" /\ run'[s].pc = "teardown") =>
              \A i \in 1..Len(run'[s].win_members) :
                  LET w == run'[s].win_members[i] IN
                  w.mult = 0 =>
                      /\ run[s].h.mult = -1
                      /\ w.actual_win = 0
                      /\ cred'[s][w.m] - cred[s][w.m] = sess[s].bet]_vars

\* C38: what roll_until_role returns has between 1 and 3 rolls; every roll
\* before the last is without a result, so the rolling stopped at the first
\* roll with a result; the reported outcome is the classification of the last
\* roll; and it is "no result" only if all three rolls were without one.
C38_RollSequence ==
    (loop_done /\ all_rolls # <<>>) =>
        LET n == Len(all_rolls) IN
        /\ n \in 1..3
        /\ \A i \in 1..(n - 1) : judge_roll(all_rolls[i])[2] = 0
        /\ last_role = judge_roll(all_rolls[n])
        /\ last_role = roll_until_role(all_rolls)
        /\ last_role[2] = 0 =>
               /\ n = 3
               /\ \A i \in 1..3 : judge_roll(all_rolls[i])[2] = 0
        /\ last_role[2] # 0 =>
               \A i \in 1..n : (judge_roll(all_rolls[i])[2] # 0) => i = n

\* two rolls without a result, then 4-5-6 on the third
C38_Witness ==
    /\ loop_done
    /\ all_rolls = <<<<1, 2, 4>>, <<2, 3, 5>>, <<4, 5, 6>>>>
    /\ last_role = <<99, 2>>

C40_TransferAtMostOnce ==
    [][\A t \in Transfers :
          /\ \A u \in Users :
                 TransferConfirm(t, u) =>
                     /\ ~xfer[t].processed
                     /\ xfer[t].writing = 0 /\ xfer[t].moved = 0
                     /\ xfer'[t].processed
          /\ \A u \in Users :
                 TransferCancel(t, u) =>
                     /\ ~xfer[t].processed
                     /\ xfer[t].writing = 0 /\ xfer[t].moved = 0
                     /\ xfer'[t].processed
                     /\ UNCHANGED ledger
          /\ xfer'[t].writing <= 1
          /\ xfer'[t].moved <= 1]_vars

\* a view has committed its transfer and is closed with its flag set
C40_Witness ==
    \E t \in Transfers :
        /\ xfer[t].st = "closed" /\ xfer[t].processed
        /\ xfer[t].moved = 1 /\ xfer[t].writing = 0
        /\ \E r \in transactions : r.type = "TRANSFER"

=============================================================================
